---- MODULE Spec2Model ----
(***************************************************************************)
(* Turing-Machine: a compiler from Turing machine descriptions to the      *)
(* two-variable stack machine of Rocketlang, and the interpreter of that   *)
(* stack machine.                                                          *)
(*                                                                         *)
(*   lib/src/ast.rs       Program, State, Transition, TapeInstruction      *)
(*   lib/src/validate.rs  Validate for Program / State / Transition        *)
(*   lib/src/compile.rs   Compile for Program / State / [Transition] /     *)
(*                        Transition / TapeInstruction                     *)
(*   lib/src/stack.rs     SmInstruction, StackMachine                      *)
(*   lib/src/turing.rs    TuringMachine::new, TuringMachine::run_with_io   *)
(*   cli/src/main.rs      tmcli: run, main                                 *)
(*                                                                         *)
(* An instruction is a record with an op field; If and While carry their   *)
(* subinstrs, Comment / InlineComment / DebugPrint carry their text.  The   *)
(* interpreter is modelled one instruction per step.  The Rust call stack  *)
(* of run / do_if / do_while is the variable frames: each frame is the     *)
(* path of the If / While whose body is being executed, the position in    *)
(* that body, and the machine as it was when the body was entered.         *)
(* Values are mathematical integers: i64 overflow needs a left tape of     *)
(* ten characters, whose shift loops are far beyond any run checked here.  *)
(***************************************************************************)
EXTENDS Integers, Sequences, FiniteSets, TLC

VARIABLES
    program,        \* the Program handed to TuringMachine::new
    phase,          \* where the facade is: "new", "compiled", "invalid",
                    \* "input_error", "running", "done", "panicked"
    errors,         \* the errors returned by new / run_with_io
    instructions,   \* TuringMachine.instructions (or the raw program run)
    input,          \* the string handed to run_with_io
    sm,             \* the StackMachine
    reader,         \* bytes not yet read
    writer,         \* bytes written so far
    stdout,         \* messages of DebugPrint (println!)
    frames,         \* call stack of run / do_if / do_while
    fragment,       \* the tape instructions of a fragment run
    entry,          \* the machine a fragment run was started from
    previous,       \* what the run before this one wrote and left behind
    cli             \* the command tmcli was started with, and how it ended

vars == <<program, phase, errors, instructions, input, sm, reader, writer,
          stdout, frames, fragment, entry, previous, cli>>

----------------------------------------------------------------------------
(* ast.rs *)

CHAR_SIZE_BITS == 7
ALPHABET_SIZE == 2 ^ CHAR_SIZE_BITS
BLANK_CHAR == 0

Left == [kind |-> "Left", char |-> 0]
Right == [kind |-> "Right", char |-> 0]
Write(c) == [kind |-> "Write", char |-> c]

Transition(c, ti, next) ==
    [match_char |-> c, tape_instruction |-> ti, next_state |-> next]

State(id, initial, accepting, transitions) ==
    [id |-> id, initial |-> initial, accepting |-> accepting,
     transitions |-> transitions]

----------------------------------------------------------------------------
(* Sequence helpers standing for the iterator adaptors of the source. *)

\* iter::repeat(x).take(n)
Repeat(x, n) == [k \in 1..n |-> x]

\* .map(f).flatten() over the sequence s, f given as a sequence of sequences
RECURSIVE FlattenRange(_, _, _)
FlattenRange(ss, lo, hi) ==
    IF lo > hi THEN <<>>
    ELSE IF lo = hi THEN ss[lo]
    ELSE LET mid == (lo + hi) \div 2
         IN FlattenRange(ss, lo, mid) \o FlattenRange(ss, mid + 1, hi)

Flatten(ss) == FlattenRange(ss, 1, Len(ss))

----------------------------------------------------------------------------
(* stack.rs: SmInstruction *)

ReadToActive == [op |-> "ReadToActive"]
PrintActive == [op |-> "PrintActive"]
PrintState == [op |-> "PrintState"]
IncrActive == [op |-> "IncrActive"]
DecrActive == [op |-> "DecrActive"]
SaveActive == [op |-> "SaveActive"]
Swap == [op |-> "Swap"]
PushZero == [op |-> "PushZero"]
PushActive == [op |-> "PushActive"]
PopToActive == [op |-> "PopToActive"]
ToggleErrors == [op |-> "ToggleErrors"]
If(subinstrs) == [op |-> "If", subinstrs |-> subinstrs]
While(subinstrs) == [op |-> "While", subinstrs |-> subinstrs]
Comment(fmt, arg) == [op |-> "Comment", fmt |-> fmt, arg |-> arg]
InlineComment(instr, fmt, arg) ==
    [op |-> "InlineComment", instr |-> instr, fmt |-> fmt, arg |-> arg]
DebugPrint(msg, print_stack) ==
    [op |-> "DebugPrint", msg |-> msg, print_stack |-> print_stack]

----------------------------------------------------------------------------
(* compile.rs *)

\* "ACCEPT" and "REJECT" as the code points print_string! iterates over
ACCEPT == <<65, 67, 67, 69, 80, 84>>
REJECT == <<82, 69, 74, 69, 67, 84>>
NEWLINE == 10

\* state_comment!(active, inactive, [stack...])
state_comment(active, inactive, se) ==
    Comment("Active: {}; Inactive: {}; [{}]", <<active, inactive, se>>)

\* print_string!(s): a comment, then for each char of s and the final '\n':
\* c Incrs, PrintActive, PushZero, PopToActive
print_string(s) ==
    <<Comment("Print '{}'", s)>> \o
    Flatten([k \in 1..(Len(s) + 1) |->
        LET c == IF k <= Len(s) THEN s[k] ELSE NEWLINE
        IN Repeat(IncrActive, c) \o <<PrintActive, PushZero, PopToActive>>])

\* TapeInstruction::Left without the Decr of the quotient counter
CompileLeftNoDecr ==
    <<Comment("Move left", <<>>), PushZero, PopToActive, Swap,
      While(Repeat(DecrActive, ALPHABET_SIZE) \o <<Swap, IncrActive, Swap>>)>>
    \o Repeat(IncrActive, ALPHABET_SIZE)
    \o <<PushActive, Swap, Swap>>

\* TapeInstruction::Left
CompileLeft ==
    <<Comment("Move left", <<>>), PushZero, PopToActive, Swap,
      While(Repeat(DecrActive, ALPHABET_SIZE) \o <<Swap, IncrActive, Swap>>)>>
    \o Repeat(IncrActive, ALPHABET_SIZE)
    \o <<PushActive, Swap, DecrActive, Swap>>

\* TapeInstruction::Right with one PopToActive, not two, before the old
\* head is added to the left tape
CompileRightOnePop ==
    <<Comment("Move right", <<>>), Swap, PushActive>>
    \o Flatten(Repeat(<<While(<<DecrActive, Swap, IncrActive, Swap>>),
                        PopToActive, PushActive>>,
                      ALPHABET_SIZE - 1))
    \o <<state_comment("0", "Left tape",
             <<"Left tape original", "Head", "...Right tape">>),
         Comment("Add old head to left tape", <<>>),
         PopToActive,
         While(<<DecrActive, Swap, IncrActive, Swap>>)>>

\* TapeInstruction::Right
CompileRight ==
    <<Comment("Move right", <<>>), Swap, PushActive>>
    \o Flatten(Repeat(<<While(<<DecrActive, Swap, IncrActive, Swap>>),
                        PopToActive, PushActive>>,
                      ALPHABET_SIZE - 1))
    \o <<state_comment("0", "Left tape",
             <<"Left tape original", "Head", "...Right tape">>),
         Comment("Add old head to left tape", <<>>),
         PopToActive, PopToActive,
         While(<<DecrActive, Swap, IncrActive, Swap>>)>>

\* Write without the reset of the active variable before counting up
CompileWriteNoReset(c) ==
    <<Comment("Write {} to tape", c), PopToActive>>
    \o Repeat(IncrActive, c)
    \o <<PushActive>>

\* TapeInstruction::Write(c)
CompileWrite(c) ==
    <<Comment("Write {} to tape", c), PopToActive, PushZero, PopToActive>>
    \o Repeat(IncrActive, c)
    \o <<PushActive>>

\* Compile for TapeInstruction
CompileTapeInstruction(ti) ==
    CASE ti.kind = "Left" -> CompileLeft
      [] ti.kind = "Right" -> CompileRight
      [] ti.kind = "Write" -> CompileWrite(ti.char)

\* Transition::compile before the tape instruction: from active = inactive =
\* head char over [left tape, ...right tape] to inactive = left tape over
\* [head char, ...right tape]
TransitionEnter ==
    <<PopToActive, Swap, PushActive,
      state_comment("FREE", "Left tape", <<"Head", "...Right tape">>)>>

\* TransitionLeave that leaves 1, not -1, in the inactive variable
TransitionLeaveMarkOne(next_state) ==
    <<state_comment("FREE", "NEW Left tape",
          <<"NEW Head", "...NEW Right tape">>),
      Swap, PushActive, PushZero, PopToActive, SaveActive,
      state_comment("0", "0", <<"Left tape", "Head", "...Right tape">>)>>
    \o <<Comment("Set next state={}", next_state)>>
    \o Repeat(IncrActive, next_state)
    \o <<PushActive, PushZero, PopToActive, IncrActive, Swap>>

\* TransitionLeave counting one short of the next state
TransitionLeaveOneShort(next_state) ==
    <<state_comment("FREE", "NEW Left tape",
          <<"NEW Head", "...NEW Right tape">>),
      Swap, PushActive, PushZero, PopToActive, SaveActive,
      state_comment("0", "0", <<"Left tape", "Head", "...Right tape">>)>>
    \o <<Comment("Set next state={}", next_state)>>
    \o Repeat(IncrActive, next_state - 1)
    \o <<PushActive, PushZero, PopToActive, DecrActive, Swap>>

\* Transition::compile after the tape instruction: push the left tape and
\* the next state, leave active = 0 and inactive = -1
TransitionLeave(next_state) ==
    <<state_comment("FREE", "NEW Left tape",
          <<"NEW Head", "...NEW Right tape">>),
      Swap, PushActive, PushZero, PopToActive, SaveActive,
      state_comment("0", "0", <<"Left tape", "Head", "...Right tape">>)>>
    \o <<Comment("Set next state={}", next_state)>>
    \o Repeat(IncrActive, next_state)
    \o <<PushActive, PushZero, PopToActive, DecrActive, Swap>>

\* Compile for Transition without the DecrActive and Swap that leave -1 in
\* the inactive variable
CompileTransitionNoMark(t) ==
    TransitionEnter
    \o CompileTapeInstruction(t.tape_instruction)
    \o <<Swap, PushActive, PushZero, PopToActive, SaveActive>>
    \o Repeat(IncrActive, t.next_state)
    \o <<PushActive, PushZero, PopToActive>>

\* Compile for Transition
CompileTransition(t) ==
    TransitionEnter
    \o CompileTapeInstruction(t.tape_instruction)
    \o TransitionLeave(t.next_state)

\* keyed_by_char that keeps, for each match_char, the first transition
\* that has it
keyed_by_char_first(transitions) ==
    [c \in {transitions[k].match_char : k \in 1..Len(transitions)} |->
        LET first == CHOOSE k \in 1..Len(transitions) :
                         /\ transitions[k].match_char = c
                         /\ \A j \in 1..(k - 1) :
                                transitions[j].match_char # c
        IN transitions[first]]

\* keyed_by_char: collecting into the HashMap keeps, for each match_char,
\* the last transition that has it
keyed_by_char(transitions) ==
    [c \in {transitions[k].match_char : k \in 1..Len(transitions)} |->
        LET last == CHOOSE k \in 1..Len(transitions) :
                        /\ transitions[k].match_char = c
                        /\ \A j \in (k + 1)..Len(transitions) :
                               transitions[j].match_char # c
        IN transitions[last]]

\* Compile for [Transition] with an Incr only for the chars that have a
\* transition: the gaps between them are not filled
CompileTransitionsNoGaps(transitions) ==
    LET keyed == keyed_by_char(transitions)
    IN Flatten([k \in 1..ALPHABET_SIZE |->
        LET c == k - 1
        IN IF c \in DOMAIN keyed
             THEN <<Comment("Transition for char={}", c),
                    If(CompileTransition(keyed[c])),
                    InlineComment(IncrActive, "Incr for transition char={}",
                                  c + 1)>>
             ELSE <<>>])

\* Compile for [Transition]
CompileTransitions(transitions) ==
    LET keyed == keyed_by_char(transitions)
    IN Flatten([k \in 1..ALPHABET_SIZE |->
        LET c == k - 1
        IN (IF c \in DOMAIN keyed
              THEN <<Comment("Transition for char={}", c),
                     If(CompileTransition(keyed[c]))>>
              ELSE <<>>)
           \o <<InlineComment(IncrActive, "Incr for transition char={}",
                              c + 1)>>])

\* HaltBody that leaves the machine as it found it, with A > 0
HaltBodyIdle(accepting) ==
    IF accepting
      THEN <<Comment("Push 0 for ACCEPT", <<>>)>>
      ELSE <<Comment("Push -1 for REJECT", <<>>)>>

\* HaltBody with the two verdicts exchanged
HaltBodyInverted(accepting) ==
    <<DecrActive, Swap, PopToActive, Swap, PushActive, Swap, PushActive,
      PushZero, PopToActive, SaveActive>>
    \o (IF ~accepting
          THEN <<Comment("Push 0 for ACCEPT", <<>>), PushZero>>
          ELSE <<Comment("Push -1 for REJECT", <<>>),
                 DecrActive, PushActive, IncrActive>>)

\* the body of the "HALT transition" While of a state
HaltBody(accepting) ==
    <<DecrActive, Swap, PopToActive, Swap, PushActive, Swap, PushActive,
      PushZero, PopToActive, SaveActive>>
    \o (IF accepting
          THEN <<Comment("Push 0 for ACCEPT", <<>>), PushZero>>
          ELSE <<Comment("Push -1 for REJECT", <<>>),
                 DecrActive, PushActive, IncrActive>>)

\* Compile for State without the SaveActive that ends the block
CompileStateNoSave(state) ==
    <<Comment("Check state {}", state.id),
      DecrActive,
      If(<<PopToActive, Swap, PopToActive, Swap, PushActive, PushZero,
           PopToActive,
           state_comment("0", "Head", <<"Left tape", "...Right tape">>)>>
         \o CompileTransitions(state.transitions)
         \o <<Swap, IncrActive,
              Comment("HALT transition check - this While is really an If>0",
                      <<>>),
              While(HaltBody(state.accepting))>>)>>

\* Compile for State
CompileState(state) ==
    <<Comment("Check state {}", state.id),
      DecrActive,
      If(<<PopToActive, Swap, PopToActive, Swap, PushActive, PushZero,
           PopToActive,
           state_comment("0", "Head", <<"Left tape", "...Right tape">>)>>
         \o CompileTransitions(state.transitions)
         \o <<Swap, IncrActive,
              Comment("HALT transition check - this While is really an If>0",
                      <<>>),
              While(HaltBody(state.accepting)),
              SaveActive>>)>>

\* .sorted_by_key(|state| state.id): a stable sort by id
RECURSIVE sorted_by_key(_)
sorted_by_key(states) ==
    IF states = <<>> THEN <<>>
    ELSE LET m == CHOOSE k \in 1..Len(states) :
                      /\ \A j \in 1..Len(states) : states[k].id <= states[j].id
                      /\ \A j \in 1..(k - 1) : states[j].id # states[k].id
         IN <<states[m]>> \o
            sorted_by_key([j \in 1..(Len(states) - 1) |->
                              IF j < m THEN states[j] ELSE states[j + 1]])

\* Postlude without the Incr between the two checks
PostludeNoIncr ==
    <<If(print_string(ACCEPT)), If(print_string(REJECT))>>

\* the end of Compile for Valid<Program>: the check for ACCEPT, then the
\* explicit check for REJECT
Postlude ==
    <<If(print_string(ACCEPT)), IncrActive, If(print_string(REJECT))>>

\* the main loop with the state blocks in the order of the source
MainLoopSourceOrder(states) ==
    While(Flatten([k \in 1..Len(states) |-> CompileState(states[k])])
          \o <<PopToActive>>)

\* the main loop of Compile for Valid<Program>: the state blocks in
\* ascending order of id, then the pop of the next state
MainLoop(states) ==
    LET sorted == sorted_by_key(states)
    IN While(Flatten([k \in 1..Len(sorted) |-> CompileState(sorted[k])])
             \o <<PopToActive>>)

\* the prelude without the push of the initial left tape
PreludeNoLeftTape(initial_state) ==
    <<InlineComment(ToggleErrors, "Disable errors", <<>>),
      Comment("Read input onto stack (in reverse)", <<>>),
      ReadToActive,
      While(<<PushActive, PushZero, PopToActive, ReadToActive>>),
      Comment("Set initial state", <<>>)>>
    \o Repeat(IncrActive, initial_state.id)

\* the prelude of Compile for Valid<Program>: errors off, the input read
\* onto the stack, the initial left tape 0, the id of the initial state
Prelude(initial_state) ==
    <<InlineComment(ToggleErrors, "Disable errors", <<>>),
      Comment("Read input onto stack (in reverse)", <<>>),
      ReadToActive,
      While(<<PushActive, PushZero, PopToActive, ReadToActive>>),
      PushZero,
      Comment("Set initial state", <<>>)>>
    \o Repeat(IncrActive, initial_state.id)

\* Compile for Valid<Program>
CompileProgram(states) ==
    LET initial_state ==
            states[CHOOSE k \in 1..Len(states) :
                       /\ states[k].initial
                       /\ \A j \in 1..(k - 1) : ~states[j].initial]
    IN Prelude(initial_state)
       \o <<state_comment("Initial state ID", "0",
                <<"0", "Head", "...Right tape">>),
            Comment("Main loop", <<>>),
            MainLoop(states),
            PrintState,
            DebugPrint("Checking result", FALSE)>>
       \o Postlude

----------------------------------------------------------------------------
(* validate.rs *)

\* the ids that occur on exactly two states
DuplicateIdsExactlyTwo(states) ==
    {states[k].id : k \in
        {k \in 1..Len(states) :
            Cardinality({j \in 1..Len(states) :
                            states[j].id = states[k].id}) = 2}}

\* the ids that occur on more than one state (state_ids entries with count > 1)
DuplicateIds(states) ==
    {states[k].id : k \in
        {k \in 1..Len(states) :
            \E j \in 1..Len(states) : j # k /\ states[j].id = states[k].id}}

\* Validate for Transition without the check of the match char
ValidateTransitionAnyChar(transition, context) ==
    IF transition.next_state \notin context
      THEN <<[kind |-> "UndefinedState", arg |-> transition.next_state]>>
      ELSE <<>>

\* Validate for Transition
ValidateTransition(transition, context) ==
    (IF transition.match_char = 0 \/ transition.match_char >= ALPHABET_SIZE
       THEN <<[kind |-> "IllegalCharacter", arg |-> transition.match_char]>>
       ELSE <<>>)
    \o (IF transition.next_state \notin context
          THEN <<[kind |-> "UndefinedState", arg |-> transition.next_state]>>
          ELSE <<>>)

\* Validate for State that stops at an invalid id
ValidateStateFirstOnly(state, context) ==
    IF state.id = 0
      THEN <<[kind |-> "InvalidStateId", arg |-> state.id]>>
      ELSE Flatten([k \in 1..Len(state.transitions) |->
                       ValidateTransition(state.transitions[k], context)])

\* Validate for State
ValidateState(state, context) ==
    (IF state.id = 0
       THEN <<[kind |-> "InvalidStateId", arg |-> state.id]>>
       ELSE <<>>)
    \o Flatten([k \in 1..Len(state.transitions) |->
                   ValidateTransition(state.transitions[k], context)])

\* Validate for Program with the initial states collected last to first
ValidateProgramReversedInitial(p, dup_order) ==
    LET context == {p.states[k].id : k \in 1..Len(p.states)}
        initial_states ==
            LET RECURSIVE Go(_)
                Go(k) == IF k > Len(p.states) THEN <<>>
                         ELSE Go(k + 1)
                              \o (IF p.states[k].initial
                                    THEN <<p.states[k].id>> ELSE <<>>)
            IN Go(1)
    IN [k \in 1..Len(dup_order) |->
           [kind |-> "DuplicateStateId", arg |-> dup_order[k]]]
       \o Flatten([k \in 1..Len(p.states) |->
                      ValidateState(p.states[k], context)])
       \o (IF initial_states = <<>>
             THEN <<[kind |-> "NoInitialState", arg |-> <<>>]>>
             ELSE IF Len(initial_states) > 1
                    THEN <<[kind |-> "MultipleInitialStates",
                            arg |-> initial_states]>>
                    ELSE <<>>)

\* Validate for Program.  dup_order is the order in which the HashMap
\* state_ids yields the duplicated ids, which the language leaves open.
ValidateProgram(p, dup_order) ==
    LET context == {p.states[k].id : k \in 1..Len(p.states)}
        initial_states ==
            LET RECURSIVE Go(_)
                Go(k) == IF k > Len(p.states) THEN <<>>
                         ELSE (IF p.states[k].initial
                                 THEN <<p.states[k].id>> ELSE <<>>)
                              \o Go(k + 1)
            IN Go(1)
    IN [k \in 1..Len(dup_order) |->
           [kind |-> "DuplicateStateId", arg |-> dup_order[k]]]
       \o Flatten([k \in 1..Len(p.states) |->
                      ValidateState(p.states[k], context)])
       \o (IF initial_states = <<>>
             THEN <<[kind |-> "NoInitialState", arg |-> <<>>]>>
             ELSE IF Len(initial_states) > 1
                    THEN <<[kind |-> "MultipleInitialStates",
                            arg |-> initial_states]>>
                    ELSE <<>>)

\* the orders in which a set can be enumerated
Orders(S) ==
    {f \in [1..Cardinality(S) -> S] :
        \A a, b \in 1..Cardinality(S) : a # b => f[a] # f[b]}

----------------------------------------------------------------------------
(* stack.rs: StackMachine *)

\* StackMachine::new
StackMachineNew ==
    [active_var |-> 0, inactive_var |-> 0, stack |-> <<>>,
     errors_enabled |-> TRUE]

incr(m) == [m EXCEPT !.active_var = @ + 1]
decr(m) == [m EXCEPT !.active_var = @ - 1]
save_active(m) == [m EXCEPT !.inactive_var = m.active_var]
\* a swap that overwrites the active variable and loses its value
swap_lossy(m) == [m EXCEPT !.active_var = m.inactive_var]
swap(m) == [m EXCEPT !.active_var = m.inactive_var,
                     !.inactive_var = m.active_var]
push_zero(m) == [m EXCEPT !.stack = Append(@, 0)]
push_active(m) == [m EXCEPT !.stack = Append(@, m.active_var)]
\* toggle_errors that leaves the flag as it is
toggle_errors_kept(m) == m
toggle_errors(m) == [m EXCEPT !.errors_enabled = ~@]

\* error_if_enabled: does the call panic?
error_if_enabled(m) == m.errors_enabled

\* pop_to_active without the reset of the active variable on an empty stack
pop_to_active_no_reset(m) ==
    IF m.stack # <<>>
      THEN [m EXCEPT !.active_var = m.stack[Len(m.stack)],
                     !.stack = SubSeq(m.stack, 1, Len(m.stack) - 1)]
      ELSE m

\* pop_to_active, when it returns
pop_to_active(m) ==
    IF m.stack # <<>>
      THEN [m EXCEPT !.active_var = m.stack[Len(m.stack)],
                     !.stack = SubSeq(m.stack, 1, Len(m.stack) - 1)]
      ELSE [m EXCEPT !.active_var = 0]

\* format!("{}", n) for an i64, as bytes
RECURSIVE Digits(_)
Digits(n) == IF n < 10 THEN <<48 + n>>
             ELSE Append(Digits(n \div 10), 48 + (n % 10))

Display(n) == IF n < 0 THEN <<45>> \o Digits(0 - n) ELSE Digits(n)

\* write_stack: "Active: {}\nInactive: {}\n", "-----\n", "- {}\n" for each
\* element from the top down, "\n"
write_stack(m) ==
    <<65, 99, 116, 105, 118, 101, 58, 32>> \o Display(m.active_var) \o <<10>>
    \o <<73, 110, 97, 99, 116, 105, 118, 101, 58, 32>>
    \o Display(m.inactive_var) \o <<10>>
    \o <<45, 45, 45, 45, 45, 10>>
    \o Flatten([k \in 1..Len(m.stack) |->
           <<45, 32>> \o Display(m.stack[Len(m.stack) + 1 - k]) \o <<10>>])
    \o <<10>>

\* the remainder of the division that truncates towards zero
LowByteRem(n) == IF n >= 0 THEN n % 256 ELSE 0 - ((0 - n) % 256)
\* the byte print_active writes: active_var.to_be_bytes()[7..]
LowByte(n) == n % 256

\* run_instruction on InlineComment runs the wrapped instruction
RECURSIVE Unwrap(_)
Unwrap(instr) ==
    IF instr.op = "InlineComment" THEN Unwrap(instr.instr) ELSE instr

\* the instruction list a frame iterates over: the subinstrs of the If or
\* While reached from the top-level list along path
RECURSIVE SubinstrsAt(_, _)
SubinstrsAt(instrs, path) ==
    IF path = <<>> THEN instrs
    ELSE SubinstrsAt(Unwrap(instrs[Head(path)]).subinstrs, Tail(path))

TopFrame == frames[Len(frames)]
CurList == SubinstrsAt(instructions, TopFrame.path)
AtInstr == phase = "running" /\ TopFrame.pc <= Len(CurList)
Cur == Unwrap(CurList[TopFrame.pc])
\* the If or While whose body the top frame runs
Enclosing ==
    LET parent == frames[Len(frames) - 1]
    IN Unwrap(SubinstrsAt(instructions, parent.path)[parent.pc])

Advance(fs) == [fs EXCEPT ![Len(fs)].pc = @ + 1]
\* a frame: the body it runs (path), the position in it (pc), the machine
\* at the start of the pass (entry), and the positions of the If and While
\* instructions whose bodies the pass has entered so far (taken)
Frame(path, m) == [path |-> path, pc |-> 1, entry |-> m, taken |-> <<>>]
Call == Append([frames EXCEPT ![Len(frames)].taken = Append(@, TopFrame.pc)],
               Frame(Append(TopFrame.path, TopFrame.pc), sm))
Return == Advance(SubSeq(frames, 1, Len(frames) - 1))

\* a While body made of IncrActive, DecrActive, SaveActive and Swap only:
\* it touches the two variables and nothing else
RegisterOps == {"IncrActive", "DecrActive", "SaveActive", "Swap"}
RegisterOnly(subinstrs) ==
    \A k \in 1..Len(subinstrs) : subinstrs[k].op \in RegisterOps

RegisterStep(instr, m) ==
    CASE instr.op = "IncrActive" -> incr(m)
      [] instr.op = "DecrActive" -> decr(m)
      [] instr.op = "SaveActive" -> save_active(m)
      [] instr.op = "Swap" -> swap(m)

\* for subinstr in subinstrs { run_instruction(subinstr) }
\* (the instructions lo..hi, in order: the first half of the list, then,
\* from the machine it leaves, the second half)
RECURSIVE RegisterPass(_, _, _, _)
RegisterPass(subinstrs, lo, hi, m) ==
    IF lo > hi THEN m
    ELSE IF lo = hi THEN RegisterStep(subinstrs[lo], m)
    ELSE LET mid == (lo + hi) \div 2
         IN CHOOSE last \in {RegisterPass(subinstrs, mid + 1, hi, first) :
                                first \in {RegisterPass(subinstrs, lo, mid,
                                                        m)}} :
                TRUE

\* A pass over a register-only body takes (active_var, inactive_var) to
\* integer combinations of the two and a constant, so three passes, from
\* (0, 0), (1, 0) and (0, 1), give its effect from every pair.
PassEffect(subinstrs, m) ==
    LET from(a, i) ==
            RegisterPass(subinstrs, 1, Len(subinstrs),
                         [m EXCEPT !.active_var = a, !.inactive_var = i])
    IN CHOOSE effect \in
           {[active_var |-> [k |-> o.active_var,
                             a |-> x.active_var - o.active_var,
                             i |-> y.active_var - o.active_var],
             inactive_var |-> [k |-> o.inactive_var,
                               a |-> x.inactive_var - o.inactive_var,
                               i |-> y.inactive_var - o.inactive_var]] :
               o \in {from(0, 0)}, x \in {from(1, 0)}, y \in {from(0, 1)}} :
           TRUE

AfterPass(effect, m) ==
    [m EXCEPT
       !.active_var = effect.active_var.k + effect.active_var.a * m.active_var
                          + effect.active_var.i * m.inactive_var,
       !.inactive_var = effect.inactive_var.k
                            + effect.inactive_var.a * m.active_var
                            + effect.inactive_var.i * m.inactive_var]

\* while active_var > 0 { pass }, cut after 2^fuel passes: the first half of
\* the passes, then from what they leave (half) the second half
RECURSIVE RegisterWhile(_, _, _)
RegisterWhile(effect, m, fuel) ==
    IF m.active_var <= 0 THEN m
    ELSE IF fuel = 0 THEN AfterPass(effect, m)
    ELSE CHOOSE after \in {RegisterWhile(effect, half, fuel - 1) :
                               half \in {RegisterWhile(effect, m, fuel - 1)}} :
             TRUE

\* passes of a register-only loop run in one step: at most 2^WhileFuel
WhileFuel == 26

----------------------------------------------------------------------------
(* The interpreter, one action per instruction handler *)

\* what reader.next() yields when the read fails
ReadError == -1

\* read_to_active that leaves the byte it has read in the input
read_to_active_no_consume ==
    /\ AtInstr /\ Cur.op = "ReadToActive"
    /\ IF reader # <<>> /\ Head(reader) # ReadError
         THEN sm' = [sm EXCEPT !.active_var = Head(reader)]
         ELSE sm' = sm
    /\ frames' = Advance(frames)
    /\ UNCHANGED <<program, phase, errors, instructions, input, reader,
                   writer, stdout, entry, fragment,
                   previous, cli>>

\* read_to_active: one item of the input is taken if there is one; a byte
\* goes to the active variable, a failed read panics when errors are enabled
read_to_active ==
    /\ AtInstr /\ Cur.op = "ReadToActive"
    /\ IF reader = <<>>
         THEN /\ frames' = Advance(frames)
              /\ UNCHANGED <<sm, reader, phase>>
         ELSE IF Head(reader) # ReadError
                THEN /\ sm' = [sm EXCEPT !.active_var = Head(reader)]
                     /\ reader' = Tail(reader)
                     /\ frames' = Advance(frames)
                     /\ UNCHANGED phase
                ELSE IF error_if_enabled(sm)
                       THEN /\ phase' = "panicked"
                            /\ reader' = Tail(reader)
                            /\ UNCHANGED <<sm, frames>>
                       ELSE /\ reader' = Tail(reader)
                            /\ frames' = Advance(frames)
                            /\ UNCHANGED <<sm, phase>>
    /\ UNCHANGED <<program, errors, instructions, input, writer,
                   stdout, entry, fragment,
                   previous, cli>>

print_active ==
    /\ AtInstr /\ Cur.op = "PrintActive"
    /\ writer' = Append(writer, LowByte(sm.active_var))
    /\ frames' = Advance(frames)
    /\ UNCHANGED <<program, phase, errors, instructions, input, sm, reader,
                   stdout, entry, fragment,
                   previous, cli>>

print_state ==
    /\ AtInstr /\ Cur.op = "PrintState"
    /\ writer' = writer \o write_stack(sm)
    /\ frames' = Advance(frames)
    /\ UNCHANGED <<program, phase, errors, instructions, input, sm, reader,
                   stdout, entry, fragment,
                   previous, cli>>

\* the handlers that only change the machine
incr_active ==
    /\ AtInstr /\ Cur.op = "IncrActive"
    /\ sm' = incr(sm)
    /\ frames' = Advance(frames)
    /\ UNCHANGED <<program, phase, errors, instructions, input, reader,
                   writer, stdout, entry, fragment,
                   previous, cli>>

decr_active ==
    /\ AtInstr /\ Cur.op = "DecrActive"
    /\ sm' = decr(sm)
    /\ frames' = Advance(frames)
    /\ UNCHANGED <<program, phase, errors, instructions, input, reader,
                   writer, stdout, entry, fragment,
                   previous, cli>>

save_active_step ==
    /\ AtInstr /\ Cur.op = "SaveActive"
    /\ sm' = save_active(sm)
    /\ frames' = Advance(frames)
    /\ UNCHANGED <<program, phase, errors, instructions, input, reader,
                   writer, stdout, entry, fragment,
                   previous, cli>>

swap_step ==
    /\ AtInstr /\ Cur.op = "Swap"
    /\ sm' = swap(sm)
    /\ frames' = Advance(frames)
    /\ UNCHANGED <<program, phase, errors, instructions, input, reader,
                   writer, stdout, entry, fragment,
                   previous, cli>>

push_zero_step ==
    /\ AtInstr /\ Cur.op = "PushZero"
    /\ sm' = push_zero(sm)
    /\ frames' = Advance(frames)
    /\ UNCHANGED <<program, phase, errors, instructions, input, reader,
                   writer, stdout, entry, fragment,
                   previous, cli>>

push_active_step ==
    /\ AtInstr /\ Cur.op = "PushActive"
    /\ sm' = push_active(sm)
    /\ frames' = Advance(frames)
    /\ UNCHANGED <<program, phase, errors, instructions, input, reader,
                   writer, stdout, entry, fragment,
                   previous, cli>>

toggle_errors_step ==
    /\ AtInstr /\ Cur.op = "ToggleErrors"
    /\ sm' = toggle_errors(sm)
    /\ frames' = Advance(frames)
    /\ UNCHANGED <<program, phase, errors, instructions, input, reader,
                   writer, stdout, entry, fragment,
                   previous, cli>>

\* pop_to_active: panics on an empty stack when errors are enabled
pop_to_active_step ==
    /\ AtInstr /\ Cur.op = "PopToActive"
    /\ IF sm.stack = <<>> /\ error_if_enabled(sm)
         THEN /\ phase' = "panicked"
              /\ UNCHANGED <<sm, frames>>
         ELSE /\ sm' = pop_to_active(sm)
              /\ frames' = Advance(frames)
              /\ UNCHANGED phase
    /\ UNCHANGED <<program, errors, instructions, input, reader, writer,
                   stdout, entry, fragment,
                   previous, cli>>

\* do_if without the test
do_if_unconditional ==
    /\ AtInstr /\ Cur.op = "If"
    /\ frames' = Call
    /\ UNCHANGED <<program, phase, errors, instructions, input, sm, reader,
                   writer, stdout, entry, fragment, previous, cli>>

\* do_if: the condition is tested once, then the body runs
do_if ==
    /\ AtInstr /\ Cur.op = "If"
    /\ frames' = IF sm.active_var = sm.inactive_var
                   THEN Call ELSE Advance(frames)
    /\ UNCHANGED <<program, phase, errors, instructions, input, sm, reader,
                   writer, stdout, entry, fragment,
                   previous, cli>>

\* the end of an If body: do_if returns
do_if_return ==
    /\ phase = "running" /\ Len(frames) > 1
    /\ TopFrame.pc > Len(CurList)
    /\ Enclosing.op = "If"
    /\ frames' = Return
    /\ UNCHANGED <<program, phase, errors, instructions, input, sm, reader,
                   writer, stdout, entry, fragment,
                   previous, cli>>

\* do_while, reached from the instruction list: the first test.  The passes
\* of a register-only body are taken in this one step.
do_while ==
    /\ AtInstr /\ Cur.op = "While"
    /\ LET whole ==
               CHOOSE after \in
                   {RegisterWhile(effect, sm, WhileFuel) :
                       effect \in {PassEffect(body, sm) :
                                      body \in {Cur.subinstrs}}} :
                   TRUE
       IN IF RegisterOnly(Cur.subinstrs) /\ whole.active_var <= 0
            THEN /\ sm' = whole
                 /\ frames' = Advance(frames)
            ELSE /\ sm' = sm
                 /\ frames' = IF sm.active_var > 0
                                THEN Call ELSE Advance(frames)
    /\ UNCHANGED <<program, phase, errors, instructions, input, reader,
                   writer, stdout, entry, fragment,
                   previous, cli>>

\* do_while_next that leaves the loop after one pass, as an If would
do_while_next_once ==
    /\ phase = "running" /\ Len(frames) > 1
    /\ TopFrame.pc > Len(CurList)
    /\ Enclosing.op = "While"
    /\ frames' = Return
    /\ UNCHANGED <<program, phase, errors, instructions, input, sm, reader,
                   writer, stdout, entry, fragment, previous, cli>>

\* the end of a pass over a While body: the test again
do_while_next ==
    /\ phase = "running" /\ Len(frames) > 1
    /\ TopFrame.pc > Len(CurList)
    /\ Enclosing.op = "While"
    /\ frames' = IF sm.active_var > 0
                   THEN [frames EXCEPT ![Len(frames)] =
                                           Frame(TopFrame.path, sm)]
                   ELSE Return
    /\ UNCHANGED <<program, phase, errors, instructions, input, sm, reader,
                   writer, stdout, entry, fragment,
                   previous, cli>>

comment ==
    /\ AtInstr /\ Cur.op = "Comment"
    /\ frames' = Advance(frames)
    /\ UNCHANGED <<program, phase, errors, instructions, input, sm, reader,
                   writer, stdout, entry, fragment,
                   previous, cli>>

debug_print ==
    /\ AtInstr /\ Cur.op = "DebugPrint"
    /\ stdout' = Append(stdout,
           [msg |-> Cur.msg,
            stack |-> IF Cur.print_stack THEN write_stack(sm) ELSE <<>>])
    /\ frames' = Advance(frames)
    /\ UNCHANGED <<program, phase, errors, instructions, input, sm, reader,
                   writer, entry, fragment,
                   previous, cli>>

\* StackMachine::run has gone through its instructions
run_return ==
    /\ phase = "running" /\ Len(frames) = 1
    /\ TopFrame.pc > Len(CurList)
    /\ phase' = "done"
    /\ UNCHANGED <<program, errors, instructions, input, sm, reader, writer,
                   stdout, frames, entry, fragment,
                   previous, cli>>

----------------------------------------------------------------------------
(* cli/src/main.rs: the process state of tmcli *)

\* the exit code of a process that has not exited
NotExited == 0 - 1

\* Opt, with what the file system will answer: whether the input file can
\* be read and whether the output file can be written
Cli(opt, readable, writable, tape) ==
    [opt |-> opt, readable |-> readable, writable |-> writable,
     tape |-> tape, exit_code |-> NotExited, stderr |-> <<>>]

\* where the library is used without the command line
NoCli == Cli("none", TRUE, TRUE, <<>>)

----------------------------------------------------------------------------
(* turing.rs *)

\* new that lowers whatever has an initial state, validated or not
new_unvalidated ==
    /\ phase = "new"
    /\ \E dup_order \in Orders(DuplicateIds(program.states)) :
         LET errs == ValidateProgram(program, dup_order)
         IN IF \E k \in 1..Len(program.states) : program.states[k].initial
              THEN /\ instructions' = CompileProgram(program.states)
                   /\ phase' = "compiled"
                   /\ UNCHANGED errors
              ELSE /\ errors' = errs
                   /\ phase' = "invalid"
                   /\ UNCHANGED instructions
    /\ UNCHANGED <<program, input, sm, reader, writer, stdout, frames, entry,
                   fragment, previous, cli>>

\* TuringMachine::new: validate_into, then compile
new ==
    /\ phase = "new"
    /\ \E dup_order \in Orders(DuplicateIds(program.states)) :
         LET errs == ValidateProgram(program, dup_order)
         IN IF errs = <<>>
              THEN /\ instructions' = CompileProgram(program.states)
                   /\ phase' = "compiled"
                   /\ UNCHANGED errors
              ELSE /\ errors' = errs
                   /\ phase' = "invalid"
                   /\ UNCHANGED instructions
    /\ UNCHANGED <<program, input, sm, reader, writer, stdout, frames, entry, fragment,
                   previous, cli>>

\* AsciiString::from_str: the index of the first non-ASCII char, 0 if none
FirstNonAscii(s) ==
    IF \E k \in 1..Len(s) : s[k] >= 128
      THEN CHOOSE k \in 1..Len(s) :
               s[k] >= 128 /\ \A j \in 1..(k - 1) : s[j] < 128
      ELSE 0

\* run_with_io that starts the machine on whatever it is given
run_with_io_unchecked(inp) ==
    /\ phase = "compiled"
    /\ input' = inp
    /\ sm' = StackMachineNew
    /\ reader' = inp
    /\ frames' = <<Frame(<<>>, StackMachineNew)>>
    /\ phase' = "running"
    /\ UNCHANGED <<program, errors, instructions, writer, stdout, entry,
                   fragment, previous, cli>>

\* TuringMachine::run_with_io, up to the call of StackMachine::run
run_with_io(inp) ==
    /\ phase = "compiled"
    /\ input' = inp
    /\ IF FirstNonAscii(inp) # 0
         THEN /\ errors' = <<[kind |-> "AsAsciiStrError",
                              arg |-> FirstNonAscii(inp) - 1]>>
              /\ phase' = "input_error"
              /\ UNCHANGED <<sm, reader, frames>>
         ELSE IF \E k \in 1..Len(inp) : inp[k] = BLANK_CHAR
                THEN /\ errors' = <<[kind |-> "BlankCharInInput",
                                     arg |-> <<>>]>>
                     /\ phase' = "input_error"
                     /\ UNCHANGED <<sm, reader, frames>>
                ELSE /\ sm' = StackMachineNew
                     /\ reader' = inp
                     /\ frames' = <<Frame(<<>>, StackMachineNew)>>
                     /\ phase' = "running"
                     /\ UNCHANGED errors
    /\ UNCHANGED <<program, instructions, writer, stdout, entry, fragment,
                   previous, cli>>

\* a second run that goes on with the machine the first one left behind
run_with_io_again_stale ==
    /\ phase = "done" /\ previous = <<>>
    /\ previous' = <<[writer |-> writer, sm |-> sm]>>
    /\ reader' = input
    /\ writer' = <<>>
    /\ frames' = <<Frame(<<>>, sm)>>
    /\ phase' = "running"
    /\ UNCHANGED <<program, errors, instructions, input, sm, stdout, entry,
                   fragment, cli>>

\* TuringMachine::run_with_io called once more on the same TuringMachine
\* with the same input and a new output: the input was valid, and the run
\* gets a machine of its own
run_with_io_again ==
    /\ phase = "done" /\ previous = <<>>
    /\ previous' = <<[writer |-> writer, sm |-> sm]>>
    /\ sm' = StackMachineNew
    /\ reader' = input
    /\ writer' = <<>>
    /\ frames' = <<Frame(<<>>, StackMachineNew)>>
    /\ phase' = "running"
    /\ UNCHANGED <<program, errors, instructions, input, stdout, entry,
                   fragment, cli>>

----------------------------------------------------------------------------
(* The programs and inputs the facade is run on *)

\* characters of the input alphabet that the inputs are made of
MaxChar == 2
\* longest input
MaxInput == 2

Chars == 1..MaxChar

RECURSIVE SeqsUpTo(_, _)
SeqsUpTo(S, n) ==
    IF n = 0 THEN {<<>>}
    ELSE LET shorter == SeqsUpTo(S, n - 1)
         IN shorter \cup {Append(s, c) : s \in {t \in shorter : Len(t) = n - 1},
                                          c \in S}

\* well-formed inputs, and inputs with a NUL or a non-ASCII char
Inputs ==
    SeqsUpTo(Chars, MaxInput) \cup {<<0>>, <<1, 0>>, <<128>>, <<128, 0, 1>>}

\* one state, any of the ids 0, 1, 2, any flags, no transition
OneStatePrograms ==
    {[states |-> <<State(id, initial, accepting, <<>>)>>] :
        id \in 0..2, initial \in BOOLEAN, accepting \in BOOLEAN}

\* an initial state 1 with one transition on char 1, to itself or to the
\* second state; a second state with id 2 or 3 and a transition on char 2
TwoStatePrograms ==
    {[states |-> <<State(1, TRUE, FALSE,
                         <<Transition(1, ti, IF to_second THEN id2 ELSE 1)>>),
                   State(id2, FALSE, accepting,
                         <<Transition(2, Left, 1)>>)>>] :
        ti \in {Left, Right, Write(2)},
        id2 \in {2, 3},
        to_second \in BOOLEAN,
        accepting \in BOOLEAN}

ProgramsUnderTest == OneStatePrograms \cup TwoStatePrograms

Init ==
    /\ cli = NoCli
    /\ program \in ProgramsUnderTest
    /\ phase = "new"
    /\ errors = <<>>
    /\ instructions = <<>>
    /\ input = <<>>
    /\ sm = StackMachineNew
    /\ reader = <<>>
    /\ writer = <<>>
    /\ stdout = <<>>
    /\ frames = <<>>
    /\ fragment = <<>>
    /\ previous = <<>>
    /\ entry = StackMachineNew

RunInstruction ==
    \/ read_to_active
    \/ print_active
    \/ print_state
    \/ incr_active
    \/ decr_active
    \/ save_active_step
    \/ swap_step
    \/ push_zero_step
    \/ push_active_step
    \/ pop_to_active_step
    \/ toggle_errors_step
    \/ do_if
    \/ do_if_return
    \/ do_while
    \/ do_while_next
    \/ comment
    \/ debug_print
    \/ run_return

Next ==
    \/ new
    \/ \E inp \in Inputs : run_with_io(inp)
    \/ RunInstruction

Spec == Init /\ [][Next]_vars

\* the facade with a second run on the same input
\* the programs run twice: the valid ones whose first state leads to state 2
TwicePrograms ==
    {p \in TwoStatePrograms :
        p.states[2].id = 2 /\ p.states[1].transitions[1].next_state = 2}

InitTwice == Init /\ program \in TwicePrograms

NextTwice == Next \/ run_with_io_again
SpecTwice == InitTwice /\ [][NextTwice]_vars

\* StackMachine::run and run_instruction go through the instructions one
\* after the other in a single thread: an instruction that can be run is run
\* the inputs given to the runs whose passes are followed to their end:
\* strings over the two chars the programs have transitions for
MaxFairInput == 2
FairInputs == SeqsUpTo({1, 2}, MaxFairInput)
NextFair ==
    \/ new
    \/ \E inp \in FairInputs : run_with_io(inp)
    \/ RunInstruction
\* the programs whose first state moves the head, which is what runs
\* the loops of Left and of Right
FairPrograms ==
    {p \in TwicePrograms :
        p.states[1].transitions[1].tape_instruction.kind # "Write"}
InitFair == Init /\ program \in FairPrograms
SpecFair == InitFair /\ [][NextFair]_vars /\ WF_vars(RunInstruction)

\* programs whose initial state 1 has two transitions, on different chars
\* or on the same char, and whose second state accepts
MultiPrograms ==
    {[states |-> <<State(1, TRUE, FALSE,
                         <<Transition(1, ti1, 1), Transition(c2, ti2, n2)>>),
                   State(2, FALSE, TRUE,
                         <<Transition(2, Left, 1)>>)>>] :
        ti1 \in {Left, Right},
        c2 \in {1, 2}, ti2 \in {Right, Write(2)}, n2 \in {1, 2}}

InitMulti ==
    /\ cli = NoCli
    /\ program \in MultiPrograms
    /\ phase = "new"
    /\ errors = <<>>
    /\ instructions = <<>>
    /\ input = <<>>
    /\ sm = StackMachineNew
    /\ reader = <<>>
    /\ writer = <<>>
    /\ stdout = <<>>
    /\ frames = <<>>
    /\ fragment = <<>>
    /\ previous = <<>>
    /\ entry = StackMachineNew

SpecMulti == InitMulti /\ [][Next]_vars

----------------------------------------------------------------------------
(* The programs the validator is run on: up to MaxStates states with ids   *)
(* from 0, any choice of initial states, and per state at most one         *)
(* transition, whose match char and next state may be illegal.             *)

MaxStates == 2
\* one more than the largest id a state is given
MaxId == 3

ValidatorChars == {0, 1, ALPHABET_SIZE}
ValidatorTransitions ==
    {<<>>} \cup {<<Transition(c, Right, next)>> :
                     c \in ValidatorChars, next \in {1, MaxId}}
ValidatorStates ==
    {State(id, initial, FALSE, ts) :
        id \in 0..(MaxId - 1), initial \in BOOLEAN,
        ts \in ValidatorTransitions}
\* how many states, with no transitions, may carry one of two ids
MaxCopies == 3
SameIdPrograms ==
    {[states |-> [k \in 1..MaxCopies |->
                     State(ids[k], k = 1, FALSE, <<>>)]] :
        ids \in [1..MaxCopies -> {1, 2}]}
ValidatorPrograms ==
    {[states |-> ss] : ss \in SeqsUpTo(ValidatorStates, MaxStates)}
        \cup SameIdPrograms

InitValidator ==
    /\ cli = NoCli
    /\ program \in ValidatorPrograms
    /\ phase = "new"
    /\ errors = <<>>
    /\ instructions = <<>>
    /\ input = <<>>
    /\ sm = StackMachineNew
    /\ reader = <<>>
    /\ writer = <<>>
    /\ stdout = <<>>
    /\ frames = <<>>
    /\ fragment = <<>>
    /\ previous = <<>>
    /\ entry = StackMachineNew

SpecValidator == InitValidator /\ [][new]_vars

----------------------------------------------------------------------------
(* Scenario A of the end-to-end tests: the machine that matches "foo" *)

ScenarioA ==
    [states |-> <<State(1, TRUE, FALSE, <<Transition(102, Right, 2)>>),
                  State(2, FALSE, FALSE, <<Transition(111, Right, 3)>>),
                  State(3, FALSE, FALSE, <<Transition(111, Right, 4)>>),
                  State(4, FALSE, TRUE, <<>>)>>]

\* "foo" and "food", supplied reversed
ScenarioInputs == {<<111, 111, 102>>, <<100, 111, 111, 102>>}

InitScenario ==
    /\ cli = NoCli
    /\ program = ScenarioA
    /\ phase = "new"
    /\ errors = <<>>
    /\ instructions = <<>>
    /\ input = <<>>
    /\ sm = StackMachineNew
    /\ reader = <<>>
    /\ writer = <<>>
    /\ stdout = <<>>
    /\ frames = <<>>
    /\ fragment = <<>>
    /\ previous = <<>>
    /\ entry = StackMachineNew

NextScenario ==
    \/ new
    \/ \E inp \in ScenarioInputs : run_with_io(inp)
    \/ RunInstruction

SpecScenario == InitScenario /\ [][NextScenario]_vars

----------------------------------------------------------------------------
(* Tape instructions run on their own.  A run starts where the If of a     *)
(* transition has just matched (the input state of Transition::compile):   *)
(* active = inactive = head char, the encoded left tape on top of the      *)
(* stack, the right tape beneath it, errors disabled.  The instructions    *)
(* are those Transition::compile emits first, then the code of one tape    *)
(* instruction, or of two in a row.                                        *)

\* the encoded left tapes go up to MaxLeftDigits + 1 base-128 digits
MaxLeftDigits == 1
\* right tapes of at most MaxRight cells
MaxRight == 1

LeftTapes ==
    {q * ALPHABET_SIZE + r :
        q \in 0..MaxLeftDigits, r \in {0, 1, ALPHABET_SIZE - 1}}
Heads == {0, 1, 2, ALPHABET_SIZE - 1}
RightTapes == SeqsUpTo({0, 5}, MaxRight)

TapeFragments ==
    {<<Left>>, <<Right>>, <<Right, Left>>, <<Left, Right>>}
    \cup {<<Write(c)>> : c \in 0..(ALPHABET_SIZE - 1)}

\* a Write is started from the ends of these ranges only
WriteLeftTapes == {0, ALPHABET_SIZE + 1}
WriteHeads == {1, ALPHABET_SIZE - 1}

InitTape ==
    /\ cli = NoCli
    /\ fragment \in TapeFragments
    /\ previous = <<>>
    /\ \E lt \in LeftTapes, h \in Heads, r \in RightTapes :
         /\ fragment[1].kind = "Write" =>
                lt \in WriteLeftTapes /\ h \in WriteHeads
         /\ sm = [active_var |-> h, inactive_var |-> h,
                  stack |-> Append(r, lt), errors_enabled |-> FALSE]
    /\ entry = sm
    /\ instructions =
           TransitionEnter
           \o Flatten([k \in 1..Len(fragment) |->
                          CompileTapeInstruction(fragment[k])])
    /\ frames = <<Frame(<<>>, sm)>>
    /\ phase = "running"
    /\ program = [states |-> <<>>]
    /\ errors = <<>>
    /\ input = <<>>
    /\ reader = <<>>
    /\ writer = <<>>
    /\ stdout = <<>>

NextTape ==
    \/ incr_active
    \/ decr_active
    \/ swap_step
    \/ push_zero_step
    \/ push_active_step
    \/ pop_to_active_step
    \/ do_while
    \/ comment
    \/ run_return

SpecTape == InitTape /\ [][NextTape]_vars

\* what a fragment run started from, and what it has produced when done
EntryLT == entry.stack[Len(entry.stack)]
EntryH == entry.active_var
EntryRight == SubSeq(entry.stack, 1, Len(entry.stack) - 1)
ExitLT == sm.inactive_var
\* the head is the top of the stack; an empty stack reads as blank
ExitH == IF sm.stack = <<>> THEN BLANK_CHAR ELSE sm.stack[Len(sm.stack)]

----------------------------------------------------------------------------
(* Instruction lists run directly on a new StackMachine, as the unit tests  *)
(* of stack.rs do                                                          *)

\* instructions per program
MaxProgram == 3

RawInstructions ==
    {ReadToActive, PrintActive, PrintState, IncrActive, DecrActive,
     SaveActive, Swap, PushZero, PushActive, PopToActive, ToggleErrors,
     Comment("Comment!", <<>>),
     InlineComment(IncrActive, "Comment!", <<>>),
     DebugPrint("msg", TRUE),
     If(<<IncrActive, Swap>>), If(<<PopToActive>>),
     While(<<DecrActive, PushActive>>), While(<<DecrActive, Swap>>)}

RawInputs == {<<>>, <<119, 101>>, <<ReadError, 119>>}

InitSM ==
    /\ cli = NoCli
    /\ instructions \in SeqsUpTo(RawInstructions, MaxProgram)
    /\ reader \in RawInputs
    /\ sm = StackMachineNew
    /\ entry = sm
    /\ frames = <<Frame(<<>>, sm)>>
    /\ phase = "running"
    /\ program = [states |-> <<>>]
    /\ fragment = <<>>
    /\ previous = <<>>
    /\ errors = <<>>
    /\ input = <<>>
    /\ writer = <<>>
    /\ stdout = <<>>

SpecSM == InitSM /\ [][RunInstruction]_vars

----------------------------------------------------------------------------
(* One While at the end of an instruction list, reached with the active    *)
(* variable counted up or down from 0.  StackMachine::run is a sequential  *)
(* loop that runs until the list is through, so a step that can be taken   *)
(* is taken: the fairness of SpecLoop.                                     *)

\* the active variable at the While is -1 or 0..MaxCount
MaxCount == 3

LoopBodies ==
    {<<DecrActive>>,
     <<DecrActive, PushActive>>,
     <<PushZero, PopToActive>>,
     <<Comment("spin", <<>>)>>,
     <<DecrActive, Comment("dip", <<>>), IncrActive>>,
     <<PushActive, While(<<DecrActive, Comment("inner", <<>>)>>)>>,
     <<PushActive, While(<<Comment("inner spin", <<>>)>>), PopToActive>>}

LoopPrograms ==
    {Append(prefix, While(body)) :
        prefix \in {<<DecrActive>>}
                       \cup {Repeat(IncrActive, a) : a \in 0..MaxCount},
        body \in LoopBodies}

InitLoop ==
    /\ cli = NoCli
    /\ instructions \in LoopPrograms
    /\ reader = <<>>
    /\ sm = StackMachineNew
    /\ entry = sm
    /\ frames = <<Frame(<<>>, sm)>>
    /\ phase = "running"
    /\ program = [states |-> <<>>]
    /\ fragment = <<>>
    /\ previous = <<>>
    /\ errors = <<>>
    /\ input = <<>>
    /\ writer = <<>>
    /\ stdout = <<>>

NextLoop ==
    \/ incr_active
    \/ decr_active
    \/ push_zero_step
    \/ push_active_step
    \/ pop_to_active_step
    \/ do_while
    \/ do_while_next
    \/ comment
    \/ run_return

SpecLoop == InitLoop /\ [][NextLoop]_vars /\ WF_vars(NextLoop)

----------------------------------------------------------------------------
(* PrintActive on its own: one or two of them, run on a machine whose      *)
(* active variable is below, in and above the range of a byte              *)

\* the active variable goes from -256 * MaxHigh to 256 * MaxHigh + 255
MaxHigh == 2

PrintValues ==
    {256 * q + r : q \in (0 - MaxHigh)..MaxHigh, r \in {0, 1, 127, 128, 255}}

InitPrint ==
    /\ cli = NoCli
    /\ instructions \in {<<PrintActive>>, <<PrintActive, PrintActive>>}
    /\ \E a \in PrintValues, i \in {0, 7}, st \in {<<>>, <<5>>},
          e \in BOOLEAN :
         sm = [active_var |-> a, inactive_var |-> i, stack |-> st,
               errors_enabled |-> e]
    /\ entry = sm
    /\ frames = <<Frame(<<>>, sm)>>
    /\ phase = "running"
    /\ program = [states |-> <<>>]
    /\ fragment = <<>>
    /\ previous = <<>>
    /\ errors = <<>>
    /\ input = <<>>
    /\ reader = <<>>
    /\ writer = <<>>
    /\ stdout = <<>>

NextPrint == print_active \/ run_return

SpecPrint == InitPrint /\ [][NextPrint]_vars

----------------------------------------------------------------------------
(* tmcli run / tmcli compile.  TuringMachine::from_json is not among the   *)
(* sources; the specification describes it as building the Program of the *)
(* JSON document and handing it to TuringMachine::new.                     *)

CliTapes == {<<>>, <<1>>, <<1, 2>>, <<1, 0>>, <<128>>}

CliPrograms ==
    OneStatePrograms
    \cup {[states |-> <<State(1, TRUE, FALSE, <<Transition(1, Right, 2)>>),
                        State(2, FALSE, TRUE, <<>>)>>]}

InitCli ==
    /\ program \in CliPrograms
    /\ cli \in {Cli(opt, readable, writable, tape) :
                    opt \in {"run", "compile"}, readable \in BOOLEAN,
                    writable \in BOOLEAN, tape \in CliTapes}
    /\ phase = "new"
    /\ errors = <<>>
    /\ instructions = <<>>
    /\ input = <<>>
    /\ sm = StackMachineNew
    /\ reader = <<>>
    /\ writer = <<>>
    /\ stdout = <<>>
    /\ frames = <<>>
    /\ fragment = <<>>
    /\ previous = <<>>
    /\ entry = StackMachineNew

\* the program is handed to the library: what from_json does with the
\* contents of a readable file
from_json == cli.readable /\ new

\* tm_from_file when fs::read_to_string fails
read_to_string_failed ==
    /\ phase = "new" /\ ~cli.readable
    /\ phase' = "io_error"
    /\ errors' = <<[kind |-> "io::Error", arg |-> "read"]>>
    /\ UNCHANGED <<program, instructions, input, sm, reader, writer, stdout,
                   frames, fragment, entry, previous, cli>>

\* Opt::Execute: tm.run(tape_input)
tm_run == cli.opt = "run" /\ run_with_io(cli.tape)

\* Opt::Compile: tm_to_file, the write succeeding or failing
tm_to_file ==
    /\ cli.opt = "compile" /\ phase = "compiled"
    /\ IF cli.writable
         THEN /\ phase' = "done"
              /\ UNCHANGED errors
         ELSE /\ phase' = "io_error"
              /\ errors' = <<[kind |-> "io::Error", arg |-> "write"]>>
    /\ UNCHANGED <<program, instructions, input, sm, reader, writer, stdout,
                   frames, fragment, entry, previous, cli>>

\* main: run(opt) has returned; an Err is printed with eprintln!, and main
\* returns ().  A process whose main returns exits with 0; one that
\* panicked exits with 101.
main ==
    /\ cli.exit_code = NotExited
    /\ phase \in {"done", "invalid", "input_error", "io_error", "panicked"}
    /\ cli' = [cli EXCEPT
                  !.stderr = IF phase \in {"done", "panicked"} THEN <<>>
                             ELSE <<errors>>,
                  !.exit_code = IF phase = "panicked" THEN 101 ELSE 0]
    /\ UNCHANGED <<program, phase, errors, instructions, input, sm, reader,
                   writer, stdout, frames, fragment, entry, previous>>

NextCli ==
    \/ from_json
    \/ read_to_string_failed
    \/ tm_run
    \/ tm_to_file
    \/ RunInstruction
    \/ main

SpecCli == InitCli /\ [][NextCli]_vars

----------------------------------------------------------------------------
(* Output *)

AcceptLine == Append(ACCEPT, NEWLINE)
RejectLine == Append(REJECT, NEWLINE)

EndsWith(out, s) ==
    /\ Len(out) >= Len(s)
    /\ SubSeq(out, Len(out) - Len(s) + 1, Len(out)) = s

Occurrences(out, s) ==
    Cardinality({k \in 1..(Len(out) - Len(s) + 1) :
                    SubSeq(out, k, k + Len(s) - 1) = s})

----------------------------------------------------------------------------
(* The Turing machine a Program describes, for stating what a run must     *)
(* answer: the tape is the input read back to front, the head on the last  *)
(* byte supplied; a state with no transition for the head char halts and   *)
(* answers by its accepting flag.                                          *)

\* transitions the described machine may take before the comparison gives up
MaxTMSteps == 8

TMState(p, id) ==
    p.states[CHOOSE k \in 1..Len(p.states) : p.states[k].id = id]

TMStart(p, inp) ==
    [state |-> (p.states[CHOOSE k \in 1..Len(p.states) :
                               p.states[k].initial]).id,
     left |-> <<>>,
     head |-> IF inp = <<>> THEN BLANK_CHAR ELSE inp[Len(inp)],
     right |-> [k \in 1..(Len(inp) - 1) |-> inp[Len(inp) - k]]]

TMMatching(q, h) ==
    {k \in 1..Len(q.transitions) : q.transitions[k].match_char = h}

TMStep(c, t) ==
    CASE t.tape_instruction.kind = "Left" ->
            [state |-> t.next_state,
             left |-> IF c.left = <<>> THEN <<>>
                      ELSE SubSeq(c.left, 1, Len(c.left) - 1),
             head |-> IF c.left = <<>> THEN BLANK_CHAR
                      ELSE c.left[Len(c.left)],
             right |-> <<c.head>> \o c.right]
      [] t.tape_instruction.kind = "Right" ->
            [state |-> t.next_state,
             left |-> Append(c.left, c.head),
             head |-> IF c.right = <<>> THEN BLANK_CHAR ELSE Head(c.right),
             right |-> IF c.right = <<>> THEN <<>> ELSE Tail(c.right)]
      [] t.tape_instruction.kind = "Write" ->
            [c EXCEPT !.state = t.next_state,
                      !.head = t.tape_instruction.char]

RECURSIVE TMVerdict(_, _, _)
TMVerdict(p, c, fuel) ==
    LET q == TMState(p, c.state)
        ks == TMMatching(q, c.head)
    IN IF ks = {} THEN (IF q.accepting THEN "ACCEPT" ELSE "REJECT")
       ELSE IF fuel = 0 THEN "RUNNING"
       ELSE TMVerdict(p, TMStep(c, q.transitions[CHOOSE k \in ks : TRUE]),
                      fuel - 1)

----------------------------------------------------------------------------
(* Claims *)

\* C1: when a run of a lowered program completes, exactly one of the lines
\* ACCEPT\n and REJECT\n has been written, and it is the end of the output.
C1_ExactlyOneVerdict ==
    phase = "done" =>
        /\ EndsWith(writer, AcceptLine) # EndsWith(writer, RejectLine)
        /\ Occurrences(writer, AcceptLine) + Occurrences(writer, RejectLine)
               = 1

\* a run on a non-empty input that has completed with REJECT
C1_Witness ==
    phase = "done" /\ input # <<>> /\ EndsWith(writer, RejectLine)

\* C2: when the described machine halts in a state q (no transition of q
\* matches the head char), the completed run ends with ACCEPT\n if q is
\* accepting and with REJECT\n if it is not.
C2_VerdictOfHaltingState ==
    phase = "done" =>
        LET v == TMVerdict(program, TMStart(program, input), MaxTMSteps)
        IN /\ v = "ACCEPT" => EndsWith(writer, AcceptLine)
           /\ v = "REJECT" => EndsWith(writer, RejectLine)

Foo == <<111, 111, 102>>
Food == <<100, 111, 111, 102>>

\* C3: the machine of scenario A, run on "foo" (supplied as "oof"), ends
\* its output with ACCEPT\n.
C3_FooAccepted ==
    (phase = "done" /\ program = ScenarioA /\ input = Foo)
        => EndsWith(writer, AcceptLine)

\* the run of scenario A on "foo" has completed
C3_Witness == phase = "done" /\ program = ScenarioA /\ input = Foo

OneShift(ti) == phase = "done" /\ fragment = <<ti>>

\* C5: Right from left tape LT and head H leaves the left tape
\* LT * 128 + H.
C5_RightAppendsHead ==
    OneShift(Right) => ExitLT = EntryLT * ALPHABET_SIZE + EntryH

\* C6: Left from left tape LT leaves the head LT mod 128 and the left tape
\* floor(LT / 128), also for LT = 0 and for LT a multiple of 128.
C6_LeftDividesTape ==
    OneShift(Left) =>
        /\ ExitH = EntryLT % ALPHABET_SIZE
        /\ ExitLT = EntryLT \div ALPHABET_SIZE

\* C7: Right and then Left, from a head H in 1..127 whose right neighbour
\* is blank, restores the left tape and the head.
C7_RightLeftRestores ==
    (/\ phase = "done" /\ fragment = <<Right, Left>>
     /\ EntryH \in 1..(ALPHABET_SIZE - 1)
     /\ (EntryRight = <<>> \/ EntryRight[Len(EntryRight)] = BLANK_CHAR))
        => (ExitLT = EntryLT /\ ExitH = EntryH)

\* C8: Write(c), for c in 0..127, replaces the head cell on top of the
\* stack by c and leaves the right tape beneath it and the left tape in the
\* inactive variable as they were.
C8_WriteReplacesHead ==
    (phase = "done" /\ Len(fragment) = 1 /\ fragment[1].kind = "Write")
        => /\ sm.stack = Append(EntryRight, fragment[1].char)
           /\ ExitLT = EntryLT

\* a Write of the last character over a different head, above a right tape
C8_Witness ==
    /\ phase = "done" /\ fragment = <<Write(ALPHABET_SIZE - 1)>>
    /\ EntryH = 1 /\ EntryRight # <<>> /\ EntryLT # 0

\* the step executes the instruction op (If and While are not single steps)
BlockOps == {"If", "While"}
Inactive(m) == m.inactive_var
Exchanged ==
    /\ sm'.active_var = sm.inactive_var
    /\ sm'.inactive_var = sm.active_var

\* C9, as claimed: an instruction other than Swap leaves the inactive
\* variable as it was; Swap exchanges the two variables.
C9_OnlySwapChangesInactive ==
    [][(AtInstr /\ Cur.op \notin BlockOps) =>
           IF Cur.op = "Swap" THEN Exchanged
           ELSE Inactive(sm') = Inactive(sm)]_vars

\* C9, amended: an instruction other than Swap, SaveActive, If and While
\* leaves the inactive variable as it was; Swap exchanges the two
\* variables; SaveActive sets the inactive variable to the active one, which
\* it leaves as it was.
C9_SwapAndSaveChangeInactive ==
    [][(AtInstr /\ Cur.op \notin BlockOps) =>
           CASE Cur.op = "Swap" -> Exchanged
             [] Cur.op = "SaveActive" ->
                    /\ sm'.inactive_var = sm.active_var
                    /\ sm'.active_var = sm.active_var
             [] OTHER -> Inactive(sm') = Inactive(sm)]_vars

\* the opcodes of the instructions already executed by run
Executed ==
    [k \in 1..(frames[1].pc - 1) |-> Unwrap(instructions[k]).op]

\* a SaveActive has copied the active variable, and the DecrActive after it
\* has left the copy alone
C9_Witness ==
    /\ phase = "done"
    /\ Executed = <<"IncrActive", "SaveActive", "DecrActive">>
    /\ sm.active_var = 0 /\ sm.inactive_var = 1

\* C10: PopActive on a non-empty stack removes the top and puts it in the
\* active variable; on an empty stack it is fatal when errors are enabled,
\* and when they are disabled it sets the active variable to 0, leaves the
\* stack empty and does not fail.
C10_PopToActive ==
    [][(AtInstr /\ Cur.op = "PopToActive") =>
           IF sm.stack # <<>>
             THEN /\ sm'.active_var = sm.stack[Len(sm.stack)]
                  /\ sm'.stack = SubSeq(sm.stack, 1, Len(sm.stack) - 1)
                  /\ phase' = "running"
             ELSE IF sm.errors_enabled
                    THEN phase' = "panicked"
                    ELSE /\ sm'.active_var = 0
                         /\ sm'.stack = <<>>
                         /\ phase' = "running"]_vars

\* a pop on the empty stack, errors disabled, has reset a non-zero active
\* variable
C10_Witness ==
    /\ phase = "done"
    /\ Executed = <<"IncrActive", "ToggleErrors", "PopToActive">>
    /\ sm.active_var = 0 /\ sm.stack = <<>>

\* C11: ReadToActive with a byte available takes exactly that byte from the
\* input and puts it in the active variable; at the end of the input it
\* takes nothing and leaves both variables and the stack as they were.
C11_ReadToActive ==
    [][(AtInstr /\ Cur.op = "ReadToActive") =>
           IF reader = <<>>
             THEN reader' = <<>> /\ sm' = sm
             ELSE Head(reader) # ReadError =>
                      /\ reader' = Tail(reader)
                      /\ sm' = [sm EXCEPT !.active_var = Head(reader)]]_vars

\* two bytes have been read and a third read, at the end of the input, has
\* left the second byte in the active variable
C11_Witness ==
    /\ phase = "done"
    /\ Executed = <<"ReadToActive", "ReadToActive", "ReadToActive">>
    /\ reader = <<>> /\ sm.active_var = 101

Ids(p) == {p.states[k].id : k \in 1..Len(p.states)}
Transitions(p) ==
    UNION {{p.states[k].transitions[j] :
               j \in 1..Len(p.states[k].transitions)} :
           k \in 1..Len(p.states)}
NoZeroId(p) == 0 \notin Ids(p)
UniqueIds(p) ==
    \A k, j \in 1..Len(p.states) :
        p.states[k].id = p.states[j].id => k = j
OneInitial(p) ==
    Cardinality({k \in 1..Len(p.states) : p.states[k].initial}) = 1
NoInitial(p) == \A k \in 1..Len(p.states) : ~p.states[k].initial
NextStatesDeclared(p) == \A t \in Transitions(p) : t.next_state \in Ids(p)
MatchCharsLegal(p) ==
    \A t \in Transitions(p) : t.match_char \in 1..(ALPHABET_SIZE - 1)
Reported(kind) == \E k \in 1..Len(errors) : errors[k].kind = kind

C14_ErrorsAccumulate ==
    phase \in {"compiled", "invalid"} =>
        /\ ~NoZeroId(program) => Reported("InvalidStateId")
        /\ ~UniqueIds(program) => Reported("DuplicateStateId")
        /\ NoInitial(program) => Reported("NoInitialState")
        /\ (~NoInitial(program) /\ ~OneInitial(program))
               => Reported("MultipleInitialStates")
        /\ ~NextStatesDeclared(program) => Reported("UndefinedState")
        /\ ~MatchCharsLegal(program) => Reported("IllegalCharacter")

\* a state with id 0, a transition to an undeclared state and no initial
\* state: three errors at once
C14_Witness ==
    /\ phase = "invalid"
    /\ program = [states |-> <<State(0, FALSE, FALSE,
                                     <<Transition(1, Right, MaxId)>>)>>]
    /\ Len(errors) = 3
    /\ Reported("InvalidStateId") /\ Reported("UndefinedState")
    /\ Reported("NoInitialState")

\* C15: new returns the errors of validation and no machine when there are
\* any, and instructions exist only for a program that validation passes.
C15_ValidateBeforeCompile ==
    /\ phase = "invalid" => (errors # <<>> /\ instructions = <<>>)
    /\ instructions # <<>> =>
           /\ phase = "compiled" /\ errors = <<>>
           /\ \A dup_order \in Orders(DuplicateIds(program.states)) :
                  ValidateProgram(program, dup_order) = <<>>

\* new has turned down a program that has an initial state and could have
\* been lowered
C15_Witness ==
    /\ phase = "invalid" /\ instructions = <<>>
    /\ OneInitial(program) /\ ~NextStatesDeclared(program)

\* the positions of an input that hold NUL or a char that is not ASCII
Offending(inp) ==
    {k \in 1..Len(inp) : inp[k] = BLANK_CHAR \/ inp[k] >= ALPHABET_SIZE}
Started == phase \in {"running", "done", "panicked"}
NothingRun == writer = <<>> /\ stdout = <<>> /\ frames = <<>>

\* C16, as claimed: a run on an input with k >= 1 disallowed characters
\* returns k errors, one for each, and executes no instruction.
C16_ErrorPerOffendingChar ==
    /\ phase = "input_error" =>
           (Len(errors) = Cardinality(Offending(input)) /\ NothingRun)
    /\ Started => Offending(input) = {}

\* C16, amended: a run on an input with k >= 1 disallowed characters
\* returns one error, whatever k is, and executes no instruction: the error
\* of the ASCII conversion, with the position of the first char that is not
\* ASCII, if there is such a char, and otherwise the blank-char error.
C16_OneInputError ==
    /\ phase = "input_error" =>
           /\ Offending(input) # {}
           /\ NothingRun
           /\ errors =
                  IF \E k \in 1..Len(input) : input[k] >= ALPHABET_SIZE
                    THEN <<[kind |-> "AsAsciiStrError",
                            arg |-> (CHOOSE k \in 1..Len(input) :
                                        /\ input[k] >= ALPHABET_SIZE
                                        /\ \A j \in 1..(k - 1) :
                                               input[j] < ALPHABET_SIZE) - 1]>>
                    ELSE <<[kind |-> "BlankCharInInput", arg |-> <<>>]>>
    /\ Started => Offending(input) = {}

\* an input with two disallowed characters has been turned down
C16_Witness ==
    /\ phase = "input_error" /\ Cardinality(Offending(input)) = 2
    /\ Len(errors) = 1

\* the main loop of a lowered program and its body
MainLoopIndex ==
    CHOOSE k \in 2..Len(instructions) :
        /\ instructions[k - 1] = Comment("Main loop", <<>>)
        /\ instructions[k].op = "While"
MainLoopBody == instructions[MainLoopIndex].subinstrs
\* the state of a program that has the id
StateOf(p, id) ==
    p.states[CHOOSE k \in 1..Len(p.states) : p.states[k].id = id]
\* the id that the k-th state block of the main loop checks
BlockId(k) == MainLoopBody[3 * k - 2].arg

\* C17: the body of the main loop of a lowered program is one block per
\* declared state, the blocks in strictly ascending order of state id
\* whatever the order of the states in the program, and then one PopActive.
C17_BlocksAscending ==
    phase = "compiled" =>
        LET n == Len(program.states)
        IN /\ Len(MainLoopBody) = 3 * n + 1
           /\ \A k \in 1..n :
                  /\ BlockId(k) \in Ids(program)
                  /\ SubSeq(MainLoopBody, 3 * k - 2, 3 * k)
                         = CompileState(StateOf(program, BlockId(k)))
           /\ \A k \in 1..(n - 1) : BlockId(k) < BlockId(k + 1)
           /\ \A k \in 1..Len(MainLoopBody) :
                  MainLoopBody[k] = PopToActive <=> k = 3 * n + 1

\* a program whose states are given in descending order of id has been
\* lowered
C17_Witness ==
    /\ phase = "compiled" /\ Len(program.states) = MaxStates
    /\ program.states[1].id > program.states[2].id
    /\ program.states[1].transitions # <<>>

\* a pass over the body of the main loop has come to its last instruction,
\* the PopActive that takes the next state
AtNextStatePop ==
    /\ phase = "running" /\ Len(frames) = 2
    /\ TopFrame.path = <<MainLoopIndex>>
    /\ TopFrame.pc = Len(MainLoopBody)
\* the state blocks whose body the pass has executed
BlocksExecuted == TopFrame.taken

\* C18: a pass of the main loop entered with the id of a declared state in
\* the active variable executes the body of exactly one state block, the
\* block of that state, whether or not the ids are 1..n.
C18_OneBlockPerIteration ==
    (AtNextStatePop /\ TopFrame.entry.active_var \in Ids(program)) =>
        \E k \in 1..Len(program.states) :
            /\ BlockId(k) = TopFrame.entry.active_var
            /\ BlocksExecuted = <<3 * k>>

\* C19: a pass of the main loop in which no state block has matched has
\* pushed a next state by the time it comes to the PopActive, which
\* therefore does not pop the left tape.
C19_SentinelPushed ==
    (AtNextStatePop /\ BlocksExecuted = <<>>) =>
        Len(sm.stack) > Len(TopFrame.entry.stack)

\* most passes of a loop that the statement of C20 follows one by one
MaxPasses == 4

\* while active_var > 0 { for subinstr in subinstrs { .. } } on a
\* register-only body, pass by pass, given up after fuel passes
RECURSIVE WholePasses(_, _, _)
WholePasses(subinstrs, m, fuel) ==
    IF m.active_var <= 0 \/ fuel = 0 THEN m
    ELSE WholePasses(subinstrs,
                     RegisterPass(subinstrs, 1, Len(subinstrs), m), fuel - 1)

\* in the middle of the body of an If or a While
InBody == AtInstr /\ Len(frames) > 1
\* at the end of such a body
AtBodyEnd ==
    phase = "running" /\ Len(frames) > 1 /\ TopFrame.pc > Len(CurList)

\* C20: If runs its body once when A = I at the moment it is reached and
\* not at all otherwise, without another test while or after the body
\* runs; While tests A > 0 before each pass only, and a pass that has
\* started goes through to the last instruction of the body whatever A
\* becomes on the way.
C20_IfOnceWhilePerPass ==
    [][/\ (AtInstr /\ Cur.op = "If") =>
            /\ sm' = sm
            /\ frames' = IF sm.active_var = sm.inactive_var
                            THEN Call ELSE Advance(frames)
       /\ (AtInstr /\ Cur.op = "While") =>
            IF sm.active_var <= 0
              THEN sm' = sm /\ frames' = Advance(frames)
              ELSE \/ sm' = sm /\ frames' = Call
                   \/ /\ frames' = Advance(frames)
                      /\ sm'.active_var <= 0
                      /\ LET m == WholePasses(Cur.subinstrs, sm, MaxPasses)
                         IN m.active_var <= 0 => sm' = m
       /\ (InBody /\ phase' = "running") =>
            /\ Len(frames') >= Len(frames)
            /\ frames'[Len(frames)].path = TopFrame.path
            /\ frames'[Len(frames)].pc \in {TopFrame.pc, TopFrame.pc + 1}
       /\ (AtBodyEnd /\ Enclosing.op = "If") => frames' = Return
       /\ (AtBodyEnd /\ Enclosing.op = "While") =>
            frames' = IF sm.active_var > 0
                        THEN [frames EXCEPT ![Len(frames)] =
                                                Frame(TopFrame.path, sm)]
                        ELSE Return]_vars

\* a pass of a While has pushed the active variable after its decrement
\* had made it 0, and the body of an If has gone on after its increment
\* had made the two variables differ
C20_Witness ==
    /\ phase = "done"
    /\ instructions = <<If(<<IncrActive, Swap>>), Swap,
                        While(<<DecrActive, PushActive>>)>>
    /\ sm.stack = <<0>> /\ sm.active_var = 0 /\ sm.inactive_var = 0

\* the While that ends an instruction list: reached, at the end of a pass
\* over its body, and left behind
AtOuterWhile ==
    phase = "running" /\ Len(frames) = 1
        /\ frames[1].pc = Len(instructions)
OuterPassEnd ==
    phase = "running" /\ Len(frames) = 2 /\ TopFrame.pc > Len(CurList)
Terminated == frames[1].pc > Len(instructions)
OuterBody == instructions[Len(instructions)].subinstrs

\* C21: a While reached with A <= 0 terminates without a pass; a While
\* reached with A > 0 terminates when a pass over its body ends with
\* A <= 0, and only then: it is left at the test before a pass and at no
\* other point, and a pass that ends with A > 0 is followed by another.
C21_WhileTerminates ==
    /\ [][/\ AtOuterWhile =>
               IF sm.active_var <= 0
                 THEN Terminated' /\ sm' = sm
                 ELSE Terminated' =>
                          /\ sm'.active_var <= 0
                          /\ sm' = WholePasses(OuterBody, sm, MaxPasses)
          /\ OuterPassEnd =>
               /\ sm' = sm
               /\ Terminated' <=> sm.active_var <= 0
               /\ ~Terminated' => frames' = <<frames[1],
                                              Frame(TopFrame.path, sm)>>
          /\ (~Terminated /\ Terminated') => (AtOuterWhile \/ OuterPassEnd)
       ]_vars
    /\ (OuterPassEnd /\ sm.active_var <= 0) ~> Terminated
    /\ (AtOuterWhile /\ sm.active_var <= 0) ~> Terminated

\* a While reached with A = 2 has terminated after two passes, each of
\* which pushed what it had counted A down to
C21_Witness ==
    /\ phase = "done"
    /\ instructions = <<IncrActive, IncrActive,
                        While(<<DecrActive, PushActive>>)>>
    /\ sm.stack = <<1, 0>> /\ sm.active_var = 0

\* the places (paths from the top-level list) of the instructions op
RECURSIVE Occurs(_, _)
Occurs(instrs, op) ==
    {<<k>> : k \in {j \in 1..Len(instrs) : Unwrap(instrs[j]).op = op}}
    \cup UNION {{<<k>> \o p : p \in Occurs(Unwrap(instrs[k]).subinstrs, op)} :
                   k \in {j \in 1..Len(instrs) :
                              Unwrap(instrs[j]).op \in BlockOps}}

\* C22: a lowered program has one ToggleErrors, its first instruction; the
\* errors flag is set before that instruction has run and clear ever after,
\* and no run of a lowered program on a well-formed input fails.
C22_ErrorsDisabledFirst ==
    /\ phase = "compiled" => Occurs(instructions, "ToggleErrors") = {<<1>>}
    /\ phase \in {"running", "done"} =>
           sm.errors_enabled = (frames[1].pc = 1)
    /\ phase # "panicked"

\* a lowered program is about to pop from the empty stack, errors disabled
C22_Witness ==
    /\ AtInstr /\ Cur.op = "PopToActive"
    /\ sm.stack = <<>> /\ ~sm.errors_enabled
    /\ Len(program.states) = 2

Succeeded == phase = "done"

\* C24: tmcli exits with 0 when the command succeeds and with a code other
\* than 0 when tm_from_file, tm.run or tm_to_file returns an error.
C24_ExitCodeTellsFailure ==
    cli.exit_code # NotExited => (cli.exit_code = 0 <=> Succeeded)

\* a pass over the body of the main loop is about to start, or has gone
\* through the body
InMainLoopPass ==
    phase = "running" /\ Len(frames) = 2
        /\ TopFrame.path = <<MainLoopIndex>>
AtPassStart == InMainLoopPass /\ TopFrame.pc = 1
AtPassEnd == InMainLoopPass /\ TopFrame.pc = Len(MainLoopBody) + 1

\* C25: when a pass over the body of the main loop starts and when it has
\* ended, the inactive variable is 0.
C25_InactiveZeroAtBoundaries ==
    (AtPassStart \/ AtPassEnd) => sm.inactive_var = 0

\* a pass entered in state 2, in which a transition has been taken (which
\* leaves -1 in the inactive variable), has ended
C25_Witness ==
    /\ AtPassEnd /\ TopFrame.entry.active_var = 2
    /\ TopFrame.taken # <<>> /\ sm.active_var = 1

\* C26: when a pass over the body of the main loop starts and when it has
\* ended, the top of the stack (the left tape) is not negative and the cell
\* beneath it (the head), if there is one, is a character in 0..127.
C26_TapeWellFormed ==
    (AtPassStart \/ AtPassEnd) =>
        LET n == Len(sm.stack)
        IN /\ n >= 1
           /\ sm.stack[n] >= 0
           /\ n >= 2 => sm.stack[n - 1] \in 0..(ALPHABET_SIZE - 1)

\* the prelude has run and the main loop has been reached
AtMainLoop ==
    phase = "running" /\ Len(frames) = 1 /\ frames[1].pc = MainLoopIndex

\* C27: when the prelude of a lowered program has run on the input
\* b1..bn, the input has been consumed, the stack is b1, ..., bn, 0 from
\* the bottom to the top, A is the id of the initial state and I is 0.
C27_PreludeLoadsTape ==
    AtMainLoop =>
        /\ reader = <<>>
        /\ sm.stack = Append(input, 0)
        /\ \E k \in 1..Len(program.states) :
               /\ program.states[k].initial
               /\ sm.active_var = program.states[k].id
        /\ sm.inactive_var = 0

\* the prelude has read an input of two different bytes
C27_Witness ==
    /\ AtMainLoop /\ Len(input) = 2 /\ input[1] # input[2]
    /\ sm.stack = <<input[1], input[2], 0>>

\* the body of a state block of the main loop is being run: the block is
\* the BlockIndex-th, of the state BlockState, and was entered with the
\* head char BlockHead under the left tape (blank if there is no cell)
InBlock ==
    phase = "running" /\ Len(frames) >= 3
        /\ frames[2].path = <<MainLoopIndex>>
BlockFrame == frames[3]
BlockIndex == BlockFrame.path[2] \div 3
BlockState == StateOf(program, BlockId(BlockIndex))
BlockBody == MainLoopBody[3 * BlockIndex].subinstrs
BlockHead ==
    LET st == BlockFrame.entry.stack
    IN IF Len(st) >= 2 THEN st[Len(st) - 1] ELSE BLANK_CHAR
\* the stack the sweep starts with: the left tape, which the block has
\* popped (0 from an empty stack) and pushed again, over the right tape
BlockSweepStack ==
    LET st == BlockFrame.entry.stack
    IN SubSeq(st, 1, Len(st) - 2)
       \o <<IF st = <<>> THEN 0 ELSE st[Len(st)]>>
\* the sweep over the characters is followed by Swap, IncrActive, the
\* comment and the While of the HALT check, and the final SaveActive
SweepEnd == Len(BlockBody) - 4
AtSweepEnd == InBlock /\ Len(frames) = 3 /\ BlockFrame.pc = SweepEnd
\* where in the block the If of the transition for char c is: after the 8
\* instructions that set the sweep up, an Incr for each char below c, and
\* a comment and an If for each of those that has a transition
HasTransition(state, c) ==
    \E j \in 1..Len(state.transitions) : state.transitions[j].match_char = c
IfPos(state, c) ==
    8 + c + 2 * Cardinality({d \in 0..(c - 1) : HasTransition(state, d)}) + 2

\* C28: when the sweep of a state block over the characters has ended, it
\* has run the body of the If for the head char H and of no other If, if
\* the state has a transition for H; if it has none it has run the body of
\* no If, A = 128, I = H and the stack is as the sweep found it.
C28_OneIfPerSweep ==
    AtSweepEnd =>
        IF HasTransition(BlockState, BlockHead)
          THEN BlockFrame.taken = <<IfPos(BlockState, BlockHead)>>
          ELSE /\ BlockFrame.taken = <<>>
               /\ sm.active_var = ALPHABET_SIZE
               /\ sm.inactive_var = BlockHead
               /\ sm.stack = BlockSweepStack

\* the sweep of the second state has found its transition for the head 2
C28_Witness ==
    /\ AtSweepEnd /\ BlockIndex = 2 /\ BlockHead = 2
    /\ BlockFrame.taken = <<IfPos(BlockState, 2)>>

\* the body of the If of a transition has been run to its end
AtTransitionEnd ==
    /\ InBlock /\ Len(frames) = 4
    /\ TopFrame.path[3] < SweepEnd
    /\ TopFrame.pc > Len(CurList)
\* the sweep goes on after a transition has been taken
AfterTransition ==
    /\ InBlock /\ Len(frames) = 3
    /\ BlockFrame.taken # <<>> /\ BlockFrame.pc <= SweepEnd
\* the transition of the block's state for the head char
TakenTransition == keyed_by_char(BlockState.transitions)[BlockHead]

HaltPos == Len(BlockBody) - 1
AtBlockEnd == InBlock /\ Len(frames) = 3 /\ BlockFrame.pc > Len(BlockBody)
\* a pass over the body of the While of the HALT check has ended
AtHaltBodyEnd ==
    /\ InBlock /\ Len(frames) = 4
    /\ TopFrame.path[3] = HaltPos
    /\ TopFrame.pc > Len(CurList)

\* C30: the body of the While of the HALT check of a state block runs when
\* the sweep before it has run no transition body and only then, and a
\* pass over it ends with A = 0, so that there is no second pass; when it
\* has run, the stack is the one the block was entered with (right tape,
\* head, left tape) under 0 if the state is accepting and under -1 if it
\* is not; either way the block ends with A = 0 and I = 0.
C30_HaltOnlyWithoutTransition ==
    /\ AtHaltBodyEnd =>
           /\ sm.active_var = 0
           /\ frames[3].taken = <<HaltPos>>
    /\ AtBlockEnd =>
           /\ sm.active_var = 0 /\ sm.inactive_var = 0
           /\ IF HasTransition(BlockState, BlockHead)
                THEN BlockFrame.taken = <<IfPos(BlockState, BlockHead)>>
                ELSE /\ BlockFrame.taken = <<HaltPos>>
                     /\ sm.stack =
                            SubSeq(BlockSweepStack, 1,
                                   Len(BlockSweepStack) - 1)
                            \o <<BlockHead,
                                 BlockSweepStack[Len(BlockSweepStack)],
                                 IF BlockState.accepting THEN 0 ELSE 0 - 1>>

\* the block of the accepting second state has halted on the head 1 and
\* has put the head and the left tape back under the 0 it has pushed
C30_Witness ==
    /\ AtBlockEnd /\ BlockIndex = 2 /\ BlockState.accepting
    /\ BlockFrame.taken = <<HaltPos>>
    /\ BlockHead = 1 /\ Len(sm.stack) = 3
    /\ sm.stack[1] = 1 /\ sm.stack[3] = 0

\* the main loop has ended: run is past the While of the main loop
AfterMainLoop ==
    phase = "running" /\ Len(frames) = 1 /\ frames[1].pc = MainLoopIndex + 1

\* C31: when the main loop of a lowered program has ended, the active
\* variable is 0 or -1 and the inactive variable is 0.
C31_MainLoopExit ==
    AfterMainLoop => (sm.active_var \in {0, 0 - 1} /\ sm.inactive_var = 0)

\* the main loop has ended with -1 in the active variable after a pass over
\* a tape that was not empty
C31_Witness ==
    AfterMainLoop /\ sm.active_var = 0 - 1 /\ input # <<>>

\* the ids of the initial states of a program, in the order of the source
InitialIds(p) ==
    LET initial == SelectSeq(p.states, LAMBDA state : state.initial)
    IN [k \in 1..Len(initial) |-> initial[k].id]
\* how many errors of a kind have been reported
Count(kind) ==
    Cardinality({k \in 1..Len(errors) : errors[k].kind = kind})

\* C32: validation reports NoInitialState once, and no
\* MultipleInitialStates, when no state is initial; one
\* MultipleInitialStates, carrying the ids of all initial states in the
\* order of the source, and no NoInitialState, when two or more are; and
\* neither when exactly one state is initial.
C32_InitialStateErrors ==
    phase # "new" =>
        LET ids == InitialIds(program)
        IN /\ Count("NoInitialState") = (IF ids = <<>> THEN 1 ELSE 0)
           /\ Count("MultipleInitialStates") = (IF Len(ids) > 1 THEN 1 ELSE 0)
           /\ \A k \in 1..Len(errors) :
                  errors[k].kind = "MultipleInitialStates" =>
                      errors[k].arg = ids

\* two initial states declared as 2, then 1, have been reported as <<2, 1>>
C32_Witness ==
    /\ phase = "invalid"
    /\ InitialIds(program) = <<2, 1>>
    /\ \E k \in 1..Len(errors) :
           errors[k] = [kind |-> "MultipleInitialStates", arg |-> <<2, 1>>]

\* how many states of a program carry an id
Carriers(p, id) ==
    Cardinality({k \in 1..Len(p.states) : p.states[k].id = id})
\* how many times DuplicateStateId(id) has been reported
DuplicateReports(id) ==
    Cardinality({k \in 1..Len(errors) :
                    errors[k] = [kind |-> "DuplicateStateId", arg |-> id]})

\* C33: validation reports DuplicateStateId(id) exactly once for each id
\* that two or more states carry, however many they are, and never for an
\* id that one state only carries or that no state carries.
C33_DuplicateReportedOnce ==
    phase # "new" =>
        /\ \A id \in Ids(program) :
               DuplicateReports(id) =
                   (IF Carriers(program, id) >= 2 THEN 1 ELSE 0)
        /\ \A k \in 1..Len(errors) :
               errors[k].kind = "DuplicateStateId" =>
                   errors[k].arg \in Ids(program)

\* three states carry the id 1 and it has been reported once
C33_Witness ==
    /\ phase = "invalid"
    /\ Carriers(program, 1) = 3
    /\ DuplicateReports(1) = 1

\* C34: Left keeps the value the tape encodes: from every left tape
\* LT >= 0, the left tape LT' and the head H' it leaves satisfy
\* LT = LT' * 128 + H'.
C34_LeftPreservesValue ==
    (OneShift(Left) /\ EntryLT >= 0) =>
        EntryLT = ExitLT * ALPHABET_SIZE + ExitH

\* a Left from the left tape 255 has left the left tape 1 and the head 127
C34_Witness ==
    /\ OneShift(Left) /\ EntryLT = 2 * ALPHABET_SIZE - 1
    /\ ExitLT = 1 /\ ExitH = ALPHABET_SIZE - 1

\* C36: Left leaves the cells of the stack (the old head over the right
\* tape) in place and pushes the new head on top of them; Right takes
\* exactly the old head off and leaves the cells of the right tape as they
\* were, so that the head is the former first cell of the right tape, or
\* the blank when there is none.
C36_ShiftsMoveOneCell ==
    /\ OneShift(Left) =>
           /\ Len(sm.stack) = Len(EntryRight) + 2
           /\ SubSeq(sm.stack, 1, Len(sm.stack) - 1)
                  = Append(EntryRight, EntryH)
    /\ OneShift(Right) =>
           /\ sm.stack = EntryRight
           /\ ExitH = (IF EntryRight = <<>> THEN 0
                       ELSE EntryRight[Len(EntryRight)])

\* a Right from the head 2 over the right tape <<5>> has left the stack <<5>>
C36_Witness ==
    /\ OneShift(Right) /\ EntryH = 2 /\ EntryRight = <<5>>
    /\ sm.stack = <<5>>

\* the positions of a list of instructions, out of those a frame has
\* entered, that hold an If
IfsTaken(instrs, taken) ==
    SelectSeq(taken, LAMBDA pos : instrs[pos].op = "If")

\* C35: in a pass over the body of the main loop the body of at most one
\* state block is run, and in a state block the body of at most one
\* transition is run.
C35_OneBlockOneTransition ==
    /\ (phase = "running" /\ Len(frames) >= 2
            /\ frames[2].path = <<MainLoopIndex>>) =>
           Len(IfsTaken(MainLoopBody, frames[2].taken)) <= 1
    /\ InBlock => Len(IfsTaken(BlockBody, BlockFrame.taken)) <= 1

\* the block of state 1, which has transitions for the chars 1 and 2, has
\* run the transition for the head 1 and has gone past the If for char 2
C35_Witness ==
    /\ AtBlockEnd /\ BlockIndex = 1 /\ BlockHead = 1
    /\ HasTransition(BlockState, 1) /\ HasTransition(BlockState, 2)
    /\ Len(IfsTaken(BlockBody, BlockFrame.taken)) = 1
    /\ Len(IfsTaken(MainLoopBody, frames[2].taken)) = 1

\* the chars a state has a transition for, the positions of its transitions
\* for a char, and the last of them in the order of the source
MatchChars(state) ==
    {state.transitions[j].match_char : j \in 1..Len(state.transitions)}
TransitionsOn(state, c) ==
    {j \in 1..Len(state.transitions) : state.transitions[j].match_char = c}
LastOn(state, c) ==
    state.transitions[CHOOSE j \in TransitionsOn(state, c) :
                          \A i \in TransitionsOn(state, c) : i <= j]
HasDuplicate(p) ==
    \E k \in 1..Len(p.states) : \E c \in MatchChars(p.states[k]) :
        Cardinality(TransitionsOn(p.states[k], c)) >= 2
\* where in a block the Ifs of the sweep are, and which of them follows
\* the comment that names the char c
SweepIfs(body) == {pos \in 2..Len(body) : body[pos].op = "If"}
SweepIfsFor(body, c) ==
    {pos \in SweepIfs(body) :
        body[pos - 1] = Comment("Transition for char={}", c)}
\* the body of a transition is being run
InTransitionBody ==
    InBlock /\ Len(frames) = 4 /\ TopFrame.path[3] < SweepEnd

\* C38: a program in which a state has two or more transitions on the same
\* match_char is validated without error; the sweep of each state block
\* holds one If per char the state has a transition for, whose body is the
\* lowering of the last transition on that char in the order of the
\* source; the body that runs on a head char, and the next state it
\* leaves on the stack, are those of that last transition.
C38_LastDuplicateWins ==
    /\ (HasDuplicate(program) /\ phase # "new") =>
           phase # "invalid" /\ (phase = "compiled" => errors = <<>>)
    /\ phase = "compiled" =>
           \A k \in 1..Len(program.states) :
               LET state == StateOf(program, BlockId(k))
                   body == MainLoopBody[3 * k].subinstrs
               IN /\ Cardinality(SweepIfs(body))
                         = Cardinality(MatchChars(state))
                  /\ \A c \in MatchChars(state) :
                         /\ Cardinality(SweepIfsFor(body, c)) = 1
                         /\ \A pos \in SweepIfsFor(body, c) :
                                body[pos].subinstrs
                                    = CompileTransition(LastOn(state, c))
    /\ InTransitionBody =>
           CurList = CompileTransition(LastOn(BlockState, BlockHead))
    /\ AtTransitionEnd =>
           sm.stack[Len(sm.stack)] = LastOn(BlockState, BlockHead).next_state

\* state 1 has the transitions (1, Left, 1) and (1, Write(2), 2) in this
\* order; on the head 1 the Write has run and the next state is 2
C38_Witness ==
    /\ AtTransitionEnd /\ BlockIndex = 1 /\ BlockHead = 1
    /\ BlockState.transitions
           = <<Transition(1, Left, 1), Transition(1, Write(2), 2)>>
    /\ sm.stack[Len(sm.stack)] = 2
    /\ sm.stack[Len(sm.stack) - 2] = 2

\* the While of the prelude that reads the input is about to be run
IngestionIndex ==
    CHOOSE k \in 2..Len(instructions) :
        /\ instructions[k - 1] = ReadToActive
        /\ instructions[k].op = "While"
AtIngestion ==
    phase = "running" /\ Len(frames) = 1 /\ frames[1].pc = IngestionIndex

\* C37: a pass over the body of the main loop that has started comes to its
\* end, so every While in it (of Left, of Right, of the HALT check) is
\* left after finitely many steps; and the loop of the prelude that reads
\* the input is left, with the main loop reached.
C37_PassTerminates ==
    /\ AtPassStart ~> AtPassEnd
    /\ AtIngestion ~> AtMainLoop

\* the pass in state 2 that moves Left from the left tape 2, dividing it by
\* one subtraction of 128, has come to its end
C37_Witness ==
    /\ AtPassEnd /\ TopFrame.entry.active_var = 2
    /\ TopFrame.entry.stack[Len(TopFrame.entry.stack)] = 2
    /\ TopFrame.taken # <<>> /\ sm.active_var = 1

============================================================================
